---------------------------- MODULE Spec2Model ----------------------------
(***************************************************************************)
(* Model of src/cloudformation/deploy.py: the orchestration driver main(), *)
(* the certificate acquirer request_acm_certificate(), the deployment      *)
(* reconciler deploy_stack() and the artifact publisher, run against       *)
(* models of the services they call (Route 53, ACM, CloudFormation, S3).   *)
(*                                                                         *)
(* Strings that the code inspects (domain names, zone names, zone ids) are *)
(* sequences of one-character strings; error messages are sequences of     *)
(* words.  Python's `in` on strings is Contains, `split("/")[-1]` is       *)
(* SplitLast.                                                              *)
(***************************************************************************)
EXTENDS Integers, Sequences, FiniteSets, TLC

(***************************************************************************)
(* Bounds of the model.                                                    *)
(***************************************************************************)
\* Number of times the operator runs the script against the same services.
MaxRuns == 2

(***************************************************************************)
(* String helpers.                                                         *)
(***************************************************************************)
\* Python `needle in hay`.
Contains(needle, hay) ==
    \E i \in 0..(Len(hay) - Len(needle)) :
        SubSeq(hay, i + 1, i + Len(needle)) = needle

\* Python `s.split("/")[-1]`: the part after the last "/".
SplitLast(s) ==
    LET I == {i \in 1..Len(s) : s[i] = "/"}
        last == IF I = {} THEN 0 ELSE CHOOSE i \in I : \A j \in I : j <= i
    IN  SubSeq(s, last + 1, Len(s))

\* Python f"www.{domain}".
Www(domain) == <<"w", "w", "w", ".">> \o domain

\* str(e) of a botocore ClientError.
StrOfClientError(code, op, msg) ==
    <<"An", "error", "occurred", code, "when", "calling", "the", op, "operation:">> \o msg


(***************************************************************************)
(* Values the model draws its inputs from.                                 *)
(***************************************************************************)
\* --domain values.
Domains == { <<"a", ".", "c">>, <<"c">> }

\* A name that is not the target domain (another site of the same account).
OtherDomain == <<"o", ".", "c">>

\* HostedZones lists that list_hosted_zones_by_name(DNSName=domain,
\* MaxItems="1") can return: nothing, the zone of the domain, a zone whose
\* name merely contains the domain (here with a bare id), or the zone that
\* comes next in the directory's order when none matches.
ZoneResponses(domain) ==
    { <<>>,
      << [Name |-> <<"z", ".", "d", ".">>, Id |-> <<"/", "h", "z", "/", "Z", "3">>] >>,
      IF Len(domain) > 1
      THEN << [Name |-> domain \o <<".">>, Id |-> <<"/", "h", "z", "/", "Z", "1">>] >>
      ELSE << [Name |-> <<"x">> \o domain \o <<".">>, Id |-> <<"Z", "2">>] >> }

\* `return None` of get_existing_certificate; certificate ARNs are 1, 2, ...
None == 0

\* A certificate held by the authority.  SANs always starts with the primary
\* domain; the authority keeps one validation option per name, shows the
\* option list once `shown`, and attaches the resource record of option i
\* once i \in ready.
Cert(arn, domain, sans, st, shown, ready) ==
    [arn |-> arn, DomainName |-> domain, SANs |-> sans, Status |-> st,
     shown |-> shown, ready |-> ready]

\* Certificate stores the run can start from (list order is store order).
CertStores(D) ==
    { <<>>,
      << Cert(1, D, <<D, Www(D)>>, "ISSUED", TRUE, {1, 2}) >>,
      << Cert(1, D, <<D, Www(D)>>, "PENDING_VALIDATION", TRUE, {1, 2}),
         Cert(2, D, <<D, Www(D)>>, "ISSUED", TRUE, {1, 2}) >>,
      << Cert(1, D, <<D>>, "ISSUED", TRUE, {1}),
         Cert(2, D, <<D, Www(D)>>, "PENDING_VALIDATION", TRUE, {1}) >>,
      << Cert(1, OtherDomain, <<OtherDomain, Www(D)>>, "ISSUED", TRUE, {1, 2}),
         Cert(2, D, <<D, Www(D), OtherDomain>>, "PENDING_VALIDATION", TRUE, {1, 3}) >> }

\* The validation challenge the authority issues for `name` of certificate arn.
ResourceRecord(arn, name) ==
    [Name |-> <<"_">> \o name \o <<".">>, Type |-> "CNAME", Value |-> <<"v", arn>>]

\* Certificate.DomainValidationOptions of a describe_certificate response.
DomainValidationOptions(cert) ==
    IF ~cert.shown THEN <<>>
    ELSE [n \in 1..Len(cert.SANs) |->
            IF n \in cert.ready
            THEN [DomainName |-> cert.SANs[n],
                  ResourceRecord |-> ResourceRecord(cert.arn, cert.SANs[n])]
            ELSE [DomainName |-> cert.SANs[n]]]

\* describe_certificate(CertificateArn=arn)["Certificate"].
DescribeCertificate(store, arn) ==
    LET cert == store[CHOOSE n \in 1..Len(store) : store[n].arn = arn]
    IN  [Status |-> cert.Status,
         SubjectAlternativeNames |-> cert.SANs,
         DomainValidationOptions |-> DomainValidationOptions(cert)]

\* The statuses list_certificates is asked for.
CertificateStatuses == {"ISSUED", "PENDING_VALIDATION"}

\* list_certificates(CertificateStatuses=...)["CertificateSummaryList"].
CertificateSummaryList(store) ==
    LET keep == SelectSeq(store, LAMBDA c : c.Status \in CertificateStatuses)
    IN  [n \in 1..Len(keep) |->
            [DomainName |-> keep[n].DomainName, CertificateArn |-> keep[n].arn,
             Status |-> keep[n].Status]]

\* Route 53 change_resource_record_sets with one change: UPSERT replaces the
\* record set of the same name and type, CREATE adds one.
ApplyChange(records, change) ==
    LET rs == change.ResourceRecordSet
    IN  IF change.Action = "UPSERT"
        THEN {r \in records : ~(r.Name = rs.Name /\ r.Type = rs.Type)} \cup {rs}
        ELSE records \cup {rs}


(***************************************************************************)
(* State.                                                                  *)
(***************************************************************************)
VARIABLES
    args,                \* parsed command line: domain, prefix, validate
    run,                 \* number of the current run of the script
    pc,                  \* position of main() in the current run
    zones,               \* Route 53: the HostedZones list a lookup returns
    certs,               \* ACM: the authority's certificates, in list order
    records,             \* Route 53: the record sets of the hosted zone
    stack,               \* CloudFormation: the deployment named stack_name
    deleted,             \* another operator deleted the deployment in this run
    hosted_zone_id,      \* main: hosted_zone_id
    response,            \* get_existing_certificate: CertificateSummaryList
    ci,                  \* get_existing_certificate: index of `cert` in it
    cert_arn,            \* request_acm_certificate: existing_cert / cert_arn
    options,             \* request_acm_certificate: options
    oi,                  \* request_acm_certificate: index of `option`
    status,              \* Status of the latest describe_certificate of request_acm_certificate
    acm_certificate_arn, \* main: acm_certificate_arn
    error,               \* the exception that ended the run, if any
    outcome,             \* how deploy_stack returned, if it did
    calls,               \* the requests this run has sent, per operation
    previous,            \* the previous run: its deploy_stack call and result,
                         \* and the services as it left them
    event,               \* contact_form.handler: the event it was invoked with
    environ,             \* contact_form: RECIPIENT_EMAIL and SENDER_EMAIL
    hpc,                 \* contact_form.handler: where the invocation stands
    body,                \* contact_form.handler: body
    form,                \* contact_form.handler: name, email, message
    result,              \* contact_form.handler: the response it returned
    raised,              \* contact_form.handler: the exception that left it
    ses_calls            \* the send_email requests the mail service received

vars == <<args, run, pc, zones, certs, records, stack, deleted,
          hosted_zone_id, response, ci, cert_arn, options, oi, status,
          acm_certificate_arn, error, outcome, calls, previous,
          event, environ, hpc, body, form, result, raised, ses_calls>>

\* The state of the contact-form handler, src/lambda/contact_form.py.
contact == <<event, environ, hpc, body, form, result, raised, ses_calls>>

\* What the environment holds.
services == <<zones, certs, records, stack, deleted, previous>>
\* Locals of get_existing_certificate and request_acm_certificate.
acquirer == <<response, ci, cert_arn, options, oi, status>>

NoError == [kind |-> "none", msg |-> <<>>]

\* A botocore ClientError raised by operation op.
ClientError(code, op, msg) ==
    [kind |-> "ClientError", msg |-> StrOfClientError(code, op, msg)]

\* Any call may be refused for a reason of the environment's own.
AccessDenied(op) == ClientError("AccessDenied", op, <<"not", "authorized">>)

NoCalls ==
    [stages |-> <<>>, list_certificates |-> 0, request_certificate |-> <<>>,
     requested_arn |-> None, change_resource_record_sets |-> <<>>, validate_template |-> 0,
     deploy_stack |-> <<>>, describe_stacks |-> 0, describe_rejection |-> NoError,
     update_stack |-> <<>>, update_rejection |-> NoError, create_stack |-> <<>>,
     upload_file |-> <<>>]

\* The deployment before anything was ever deployed, and its possible
\* configuration when an earlier deployment exists.
NoConfig == [TemplateBody |-> "", Parameters |-> <<>>]
OldConfig == [TemplateBody |-> "old", Parameters |-> <<>>]

Absent == [phase |-> "ABSENT", live |-> NoConfig, pending |-> NoConfig]

\* The contact-form handler before it is invoked: no event, nothing parsed,
\* nothing returned or raised, nothing sent.
NoEvent == [method |-> "", isBase64Encoded |-> FALSE, body |-> [kind |-> "empty"]]
NoBody == [type |-> "none"]
NoForm == [name |-> <<>>, email |-> <<>>, message |-> <<>>]
NoResponse == [statusCode |-> 0]

NotInvoked ==
    /\ event = NoEvent
    /\ environ = [RECIPIENT_EMAIL |-> <<>>, SENDER_EMAIL |-> <<>>]
    /\ hpc = "idle"
    /\ body = NoBody
    /\ form = NoForm
    /\ result = NoResponse
    /\ raised = NoError
    /\ ses_calls = <<>>

Init ==
    /\ args \in [domain : Domains, prefix : {<<"p">>}, validate : BOOLEAN]
    /\ run = 1
    /\ pc = "resolve_zone"
    /\ zones \in ZoneResponses(args.domain)
    /\ certs \in CertStores(args.domain)
    /\ records = {}
    /\ stack \in {Absent,
                  [phase |-> "CREATE_COMPLETE", live |-> OldConfig, pending |-> NoConfig]}
    /\ deleted = FALSE
    /\ hosted_zone_id = <<>>
    /\ response = <<>>
    /\ ci = 1
    /\ cert_arn = None
    /\ options = <<>>
    /\ oi = 1
    /\ status = ""
    /\ acm_certificate_arn = None
    /\ error = NoError
    /\ outcome = "none"
    /\ calls = NoCalls
    /\ previous = [outcome |-> "none", deploy_stack |-> <<>>, stack |-> stack,
                   records |-> records]
    /\ NotInvoked

\* An uncaught exception ends the run.
Raise(e) ==
    /\ pc' = "failed"
    /\ error' = e

\* The run enters a stage of the driver.
Enter(stage) == [calls EXCEPT !.stages = Append(@, stage)]

(***************************************************************************)
(* Zone Resolver: main(), lines 295-303.                                   *)
(***************************************************************************)
\* Variant: the zone is required to carry the domain's own name.
ZoneNotFound_Exact(hosted_zones, domain) ==
    IF hosted_zones = <<>> THEN TRUE
    ELSE hosted_zones[1].Name # domain \o <<".">>

\* `not hosted_zones or domain not in hosted_zones[0]["Name"]`
ZoneNotFound(hosted_zones, domain) ==
    IF hosted_zones = <<>> THEN TRUE
    ELSE ~Contains(domain, hosted_zones[1].Name)

\* `hosted_zones[0]["Id"].split("/")[-1]`
HostedZoneId(hosted_zones) == SplitLast(hosted_zones[1].Id)

ResolveZone ==
    /\ pc = "resolve_zone"
    /\ calls' = Enter("resolve_zone")
    /\ \/ /\ Raise(AccessDenied("ListHostedZonesByName"))
          /\ UNCHANGED hosted_zone_id
       \/ /\ ZoneNotFound(zones, args.domain)
          /\ Raise([kind |-> "ValueError",
                    msg |-> <<"No", "hosted", "zone", "found", "for", "domain">>])
          /\ UNCHANGED hosted_zone_id
       \/ /\ ~ZoneNotFound(zones, args.domain)
          /\ hosted_zone_id' = HostedZoneId(zones)
          /\ pc' = "list_certificates"
          /\ UNCHANGED error
    /\ UNCHANGED <<contact, args, run, services, acquirer, acm_certificate_arn, outcome>>


(***************************************************************************)
(* Certificate Acquirer: get_existing_certificate, lines 89-119, and       *)
(* request_acm_certificate, lines 122-205.                                 *)
(***************************************************************************)
\* `cert["DomainName"] == domain`
PrimaryMatches(cert, domain) == cert.DomainName = domain

\* Variant: only the first alternate name is looked at.
CoversWww_First(sans, domain) == sans # <<>> /\ sans[1] = Www(domain)

\* `f"www.{domain}" in sans`
CoversWww(sans, domain) == \E n \in 1..Len(sans) : sans[n] = Www(domain)

\* Variant: the certificate is requested for the bare domain only.
CertificateRequest_Bare(domain) ==
    [DomainName |-> domain,
     SubjectAlternativeNames |-> <<>>,
     ValidationMethod |-> "DNS"]

\* The arguments of request_certificate.
CertificateRequest(domain) ==
    [DomainName |-> domain,
     SubjectAlternativeNames |-> <<Www(domain)>>,
     ValidationMethod |-> "DNS"]

\* `options and "ResourceRecord" in options[0]`
ChallengesAvailable(opts) ==
    IF opts = <<>> THEN FALSE
    ELSE "ResourceRecord" \in DOMAIN opts[1]

\* Variant: the record is created rather than upserted.
ValidationChange_Create(validation_record) ==
    [Action |-> "CREATE",
     ResourceRecordSet |->
        [Name |-> validation_record.Name,
         Type |-> validation_record.Type,
         TTL |-> 300,
         ResourceRecords |-> << [Value |-> validation_record.Value] >>]]

\* The ChangeBatch change built from option["ResourceRecord"].
ValidationChange(validation_record) ==
    [Action |-> "UPSERT",
     ResourceRecordSet |->
        [Name |-> validation_record.Name,
         Type |-> validation_record.Type,
         TTL |-> 300,
         ResourceRecords |-> << [Value |-> validation_record.Value] >>]]

\* Variant: a certificate still pending counts as issued.
IsIssued_OrPending(st) == st \in {"ISSUED", "PENDING_VALIDATION"}

\* `cert_details["Certificate"]["Status"] == "ISSUED"`
IsIssued(st) == st = "ISSUED"

\* request_acm_certificate returns arn to main, which goes on to read the template.
ReturnCertificate(arn) ==
    /\ acm_certificate_arn' = arn
    /\ pc' = "read_template"
    /\ UNCHANGED error

\* get_existing_certificate, line 100.
ListCertificates ==
    /\ pc = "list_certificates"
    /\ calls' = [Enter("acquire") EXCEPT !.list_certificates = @ + 1]
    /\ \/ /\ Raise(AccessDenied("ListCertificates"))
          /\ UNCHANGED <<response, ci>>
       \/ /\ response' = CertificateSummaryList(certs)
          /\ ci' = 1
          /\ pc' = "search"
          /\ UNCHANGED error
    /\ UNCHANGED <<contact, args, run, services, hosted_zone_id, cert_arn, options, oi,
                   status, acm_certificate_arn, outcome>>

\* get_existing_certificate, lines 104-119: one iteration of the loop, or its end.
SearchCertificates ==
    /\ pc = "search"
    /\ IF ci > Len(response)
       THEN /\ cert_arn' = None
            /\ pc' = "request_certificate"
            /\ UNCHANGED <<ci, error>>
       ELSE IF ~PrimaryMatches(response[ci], args.domain)
       THEN /\ ci' = ci + 1
            /\ UNCHANGED <<pc, cert_arn, error>>
       ELSE \/ /\ Raise(AccessDenied("DescribeCertificate"))
               /\ UNCHANGED <<ci, cert_arn>>
            \/ LET cert_details == DescribeCertificate(certs, response[ci].CertificateArn)
               IN  IF CoversWww(cert_details.SubjectAlternativeNames, args.domain)
                   THEN /\ cert_arn' = response[ci].CertificateArn
                        /\ pc' = "reuse"
                        /\ UNCHANGED <<ci, error>>
                   ELSE /\ ci' = ci + 1
                        /\ UNCHANGED <<pc, cert_arn, error>>
    /\ UNCHANGED <<contact, args, run, services, hosted_zone_id, response, options, oi,
                   status, acm_certificate_arn, outcome, calls>>

\* request_acm_certificate, lines 138-145: an existing certificate was found.
ReuseCertificate ==
    /\ pc = "reuse"
    /\ \/ /\ Raise(AccessDenied("DescribeCertificate"))
          /\ UNCHANGED <<status, acm_certificate_arn>>
       \/ LET cert_details == DescribeCertificate(certs, cert_arn)
          IN  /\ status' = cert_details.Status
              /\ IF IsIssued(cert_details.Status)
                 THEN ReturnCertificate(cert_arn)
                 ELSE /\ pc' = "await_challenges"
                      /\ UNCHANGED <<acm_certificate_arn, error>>
    /\ UNCHANGED <<contact, args, run, services, hosted_zone_id, response, ci, cert_arn,
                   options, oi, outcome, calls>>

\* request_acm_certificate, lines 146-154: no existing certificate.
RequestCertificate ==
    /\ pc = "request_certificate"
    /\ LET request == CertificateRequest(args.domain)
           arn == Len(certs) + 1
       IN  /\ \/ /\ calls' = [calls EXCEPT !.request_certificate = Append(@, request)]
                 /\ Raise(ClientError("LimitExceededException", "RequestCertificate",
                                      <<"too", "many", "requests">>))
                 /\ UNCHANGED <<certs, cert_arn>>
              \/ /\ calls' = [calls EXCEPT !.request_certificate = Append(@, request),
                                            !.requested_arn = arn]
                 /\ certs' = Append(certs,
                        Cert(arn, request.DomainName,
                             <<request.DomainName>> \o request.SubjectAlternativeNames,
                             "PENDING_VALIDATION", FALSE, {}))
                 /\ cert_arn' = arn
                 /\ pc' = "await_challenges"
                 /\ UNCHANGED error
    /\ UNCHANGED <<contact, args, run, zones, records, stack, deleted, previous,
                   hosted_zone_id, response, ci, options, oi, status,
                   acm_certificate_arn, outcome>>

\* Variant: the round looks for the validation options before the status.
AwaitChallenges_OptionsFirst ==
    /\ pc = "await_challenges"
    /\ \/ /\ Raise(AccessDenied("DescribeCertificate"))
          /\ UNCHANGED <<options, oi, status, acm_certificate_arn>>
       \/ LET cert_details == DescribeCertificate(certs, cert_arn)
          IN  /\ status' = cert_details.Status
              /\ IF ChallengesAvailable(cert_details.DomainValidationOptions)
                 THEN /\ options' = cert_details.DomainValidationOptions
                      /\ oi' = 1
                      /\ pc' = "publish"
                      /\ UNCHANGED <<acm_certificate_arn, error>>
                 ELSE IF IsIssued(cert_details.Status)
                 THEN /\ ReturnCertificate(cert_arn)
                      /\ UNCHANGED <<options, oi>>
                 ELSE /\ options' = cert_details.DomainValidationOptions
                      /\ oi' = 1
                      /\ UNCHANGED <<pc, acm_certificate_arn, error>>
    /\ UNCHANGED <<contact, args, run, services, hosted_zone_id, response, ci, cert_arn,
                   outcome, calls>>

\* request_acm_certificate, lines 157-170: one round of the first polling loop.
AwaitChallenges ==
    /\ pc = "await_challenges"
    /\ \/ /\ Raise(AccessDenied("DescribeCertificate"))
          /\ UNCHANGED <<options, oi, status, acm_certificate_arn>>
       \/ LET cert_details == DescribeCertificate(certs, cert_arn)
          IN  /\ status' = cert_details.Status
              /\ IF IsIssued(cert_details.Status)
                 THEN /\ ReturnCertificate(cert_arn)
                      /\ UNCHANGED <<options, oi>>
                 ELSE /\ options' = cert_details.DomainValidationOptions
                      /\ oi' = 1
                      /\ pc' = IF ChallengesAvailable(options') THEN "publish"
                                                                ELSE "await_challenges"
                      /\ UNCHANGED <<acm_certificate_arn, error>>
    /\ UNCHANGED <<contact, args, run, services, hosted_zone_id, response, ci, cert_arn,
                   outcome, calls>>

\* request_acm_certificate, lines 173-193: one iteration of `for option in options`.
PublishRecord ==
    /\ pc = "publish"
    /\ IF "ResourceRecord" \notin DOMAIN options[oi]
       THEN /\ Raise([kind |-> "KeyError", msg |-> <<"ResourceRecord">>])
            /\ UNCHANGED <<records, oi, calls>>
       ELSE LET change == ValidationChange(options[oi].ResourceRecord)
                call == [HostedZoneId |-> hosted_zone_id, Change |-> change]
            IN  /\ calls' = [calls EXCEPT
                                !.change_resource_record_sets = Append(@, call)]
                /\ \/ /\ Raise(AccessDenied("ChangeResourceRecordSets"))
                      /\ UNCHANGED <<records, oi>>
                   \/ /\ records' = ApplyChange(records, change)
                      /\ oi' = oi + 1
                      /\ pc' = IF oi = Len(options) THEN "await_issuance" ELSE "publish"
                      /\ UNCHANGED error
    /\ UNCHANGED <<contact, args, run, zones, certs, stack, deleted, previous,
                   hosted_zone_id, response, ci, cert_arn, options, status,
                   acm_certificate_arn, outcome>>

\* request_acm_certificate, lines 196-205: one round of the second polling loop.
AwaitIssuance ==
    /\ pc = "await_issuance"
    /\ \/ /\ Raise(AccessDenied("DescribeCertificate"))
          /\ UNCHANGED <<status, acm_certificate_arn>>
       \/ LET cert_details == DescribeCertificate(certs, cert_arn)
          IN  /\ status' = cert_details.Status
              /\ IF IsIssued(cert_details.Status)
                 THEN ReturnCertificate(cert_arn)
                 ELSE UNCHANGED <<pc, acm_certificate_arn, error>>
    /\ UNCHANGED <<contact, args, run, services, hosted_zone_id, response, ci, cert_arn,
                   options, oi, outcome, calls>>

(***************************************************************************)
(* The certificate authority: it shows a pending certificate's validation  *)
(* options, attaches their resource records one by one, and then issues    *)
(* the certificate or gives up on it.  It moves where the acquirer's next  *)
(* call reads the certificates: what it does elsewhere shows no earlier.   *)
(***************************************************************************)
AcquirerRunning ==
    pc \in {"list_certificates", "search", "reuse", "await_challenges",
            "await_issuance"}

AuthorityShowsOptions(n) ==
    /\ certs[n].Status = "PENDING_VALIDATION"
    /\ ~certs[n].shown
    /\ certs' = [certs EXCEPT ![n].shown = TRUE]

AuthorityAttachesRecord(n) ==
    /\ certs[n].Status = "PENDING_VALIDATION"
    /\ certs[n].shown
    /\ \E m \in (1..Len(certs[n].SANs)) \ certs[n].ready :
          certs' = [certs EXCEPT ![n].ready = @ \cup {m}]

AuthorityIssues(n) ==
    /\ certs[n].Status = "PENDING_VALIDATION"
    /\ certs[n].ready = 1..Len(certs[n].SANs)
    /\ certs' = [certs EXCEPT ![n].Status = "ISSUED"]

AuthorityFails(n) ==
    /\ certs[n].Status = "PENDING_VALIDATION"
    /\ certs' = [certs EXCEPT ![n].Status = "FAILED"]

Authority ==
    /\ AcquirerRunning
    /\ \E n \in 1..Len(certs) :
          \/ AuthorityShowsOptions(n)
          \/ AuthorityAttachesRecord(n)
          \/ AuthorityIssues(n)
          \/ AuthorityFails(n)
    /\ UNCHANGED <<contact, args, run, pc, zones, records, stack, deleted,
                   previous, hosted_zone_id, acquirer, acm_certificate_arn, error,
                   outcome, calls>>


(***************************************************************************)
(* Orchestration Driver, main(), lines 310-342: the template, the          *)
(* validate-only mode and the arguments of deploy_stack.                   *)
(***************************************************************************)
\* The contents of cfn-website-framework.yaml.
TemplateFile == "cfn-website-framework.yaml"

\* f"{args.prefix}-website-framework"
StackName(prefix) == prefix \o <<"-", "website", "-", "framework">>

\* The `parameters` list of the deploy_stack call.
Parameters(a, arn, zone_id) ==
    << [ParameterKey |-> "ACMCertificateArn", ParameterValue |-> arn],
       [ParameterKey |-> "DomainName", ParameterValue |-> a.domain],
       [ParameterKey |-> "ProjectPrefix", ParameterValue |-> a.prefix],
       [ParameterKey |-> "BucketLogsLifeCycle", ParameterValue |-> "365"],
       [ParameterKey |-> "BucketTransitionLifeCycle", ParameterValue |-> "30"],
       [ParameterKey |-> "HostedZoneId", ParameterValue |-> zone_id] >>

\* What deploy_stack asks the engine for, in create_stack and in update_stack.
StackRequest(stack_name, template_body, parameters) ==
    [StackName |-> stack_name,
     TemplateBody |-> template_body,
     Parameters |-> parameters,
     Capabilities |-> <<"CAPABILITY_NAMED_IAM", "CAPABILITY_AUTO_EXPAND">>]

\* The request of the current run.
DeployRequest ==
    StackRequest(StackName(args.prefix), TemplateFile,
                 Parameters(args, acm_certificate_arn, hosted_zone_id))

\* The configuration a request asks for.
ConfigOf(request) ==
    [TemplateBody |-> request.TemplateBody, Parameters |-> request.Parameters]

\* main, lines 311-317: read the template, then branch on --validate.
ReadTemplate ==
    /\ pc = "read_template"
    /\ calls' = Enter("read_template")
    /\ \/ Raise([kind |-> "OSError", msg |-> <<"No", "such", "file">>])
       \/ /\ pc' = IF args.validate THEN "validate_template" ELSE "describe_stacks"
          /\ UNCHANGED error
    /\ UNCHANGED <<contact, args, run, services, hosted_zone_id, acquirer,
                   acm_certificate_arn, outcome>>

\* Variant: the `return` is missing and main goes on to deploy.
AfterValidate_FallThrough == "describe_stacks"

\* Line 317: main returns once the template is validated.
AfterValidate == "done"

\* validate_template, lines 27-41, called from line 316.
ValidateTemplate ==
    /\ pc = "validate_template"
    /\ calls' = [Enter("validate") EXCEPT !.validate_template = @ + 1]
    /\ \/ Raise(ClientError("ValidationError", "ValidateTemplate",
                            <<"Template", "format", "error">>))
       \/ /\ pc' = AfterValidate
          /\ UNCHANGED error
    /\ UNCHANGED <<contact, args, run, services, hosted_zone_id, acquirer,
                   acm_certificate_arn, outcome>>

(***************************************************************************)
(* The deployment engine's answers.                                        *)
(***************************************************************************)
Updatable == {"CREATE_COMPLETE", "UPDATE_COMPLETE", "UPDATE_ROLLBACK_COMPLETE"}

\* Why the engine refuses describe_stacks(name) on stk; NoError when it answers.
DescribeRejection(stk, name) ==
    IF stk.phase = "ABSENT"
    THEN ClientError("ValidationError", "DescribeStacks",
                     <<"Stack", "with", "id">> \o name \o <<"does", "not", "exist">>)
    ELSE NoError

\* Why the engine refuses update_stack(request) on stk; NoError when it accepts.
UpdateRejection(stk, request) ==
    IF stk.phase = "ABSENT"
    THEN ClientError("ValidationError", "UpdateStack",
                     <<"Stack">> \o request.StackName \o <<"does", "not", "exist">>)
    ELSE IF stk.phase \notin Updatable
    THEN ClientError("ValidationError", "UpdateStack",
                     <<"Stack">> \o request.StackName
                        \o <<"is", "in", stk.phase, "state", "and", "can", "not",
                             "be", "updated", ".">>)
    ELSE IF stk.live = ConfigOf(request)
    THEN ClientError("ValidationError", "UpdateStack",
                     <<"No", "updates", "are", "to", "be", "performed", ".">>)
    ELSE NoError

\* Why the engine refuses create_stack(request) on stk; NoError when it accepts.
CreateRejection(stk, request) ==
    IF stk.phase # "ABSENT"
    THEN ClientError("AlreadyExistsException", "CreateStack",
                     <<"Stack">> \o request.StackName \o <<"already", "exists">>)
    ELSE NoError

\* botocore's waiters stack_update_complete and stack_create_complete on the
\* phases this engine goes through.
WaiterVerdict(waiter, phase) ==
    IF waiter = "stack_update_complete"
    THEN CASE phase = "UPDATE_COMPLETE" -> "success"
           [] phase \in {"UPDATE_ROLLBACK_COMPLETE", "ABSENT"} -> "failure"
           [] OTHER -> "retry"
    ELSE CASE phase \in {"CREATE_COMPLETE", "UPDATE_COMPLETE"} -> "success"
           [] phase \in {"ROLLBACK_COMPLETE", "ABSENT"} -> "failure"
           [] OTHER -> "retry"

WaiterError(waiter, reason) ==
    [kind |-> "WaiterError", msg |-> <<"Waiter", waiter, "failed", ":">> \o reason]


(***************************************************************************)
(* Deployment Reconciler: deploy_stack, lines 44-86.                       *)
(***************************************************************************)
\* Variant: the whole of str(e) is compared with the phrase.
IsDoesNotExist_Exact(msg) == msg = <<"does", "not", "exist">>

\* `"does not exist" in str(e)`
IsDoesNotExist(msg) == Contains(<<"does", "not", "exist">>, msg)

\* Variant: the whole of str(e) is compared with the phrase.
IsNoUpdates_Exact(msg) == msg = <<"No", "updates", "are", "to", "be", "performed">>

\* `"No updates are to be performed" in str(e)`
IsNoUpdates(msg) == Contains(<<"No", "updates", "are", "to", "be", "performed">>, msg)

\* deploy_stack returns to main, which goes on to upload the artifacts.
ReturnFromDeploy(how) ==
    /\ outcome' = how
    /\ pc' = "upload_index"
    /\ UNCHANGED error

\* Variant: the handler logs what it cannot handle and lets deploy_stack return.
OuterHandler_Swallow(e) ==
    IF IsDoesNotExist(e.msg)
    THEN /\ pc' = "create_stack"
         /\ UNCHANGED error
    ELSE /\ pc' = "upload_index"
         /\ error' = e

\* The handler of the outer try, lines 73-86, on ClientError e.
OuterHandler(e) ==
    IF IsDoesNotExist(e.msg)
    THEN /\ pc' = "create_stack"
         /\ UNCHANGED error
    ELSE Raise(e)

\* The handler of the inner try, lines 68-72, on ClientError e; what it
\* raises again is raised inside the outer try.
InnerHandler(e) ==
    IF IsNoUpdates(e.msg)
    THEN ReturnFromDeploy("no_updates")
    ELSE /\ OuterHandler(e)
         /\ UNCHANGED outcome

\* deploy_stack, line 56.
DescribeStacks ==
    /\ pc = "describe_stacks"
    /\ LET sent == [Enter("reconcile") EXCEPT !.deploy_stack = Append(@, DeployRequest),
                                              !.describe_stacks = @ + 1]
           refusal == DescribeRejection(stack, StackName(args.prefix))
       IN  \/ /\ calls' = [sent EXCEPT !.describe_rejection = AccessDenied("DescribeStacks")]
              /\ OuterHandler(AccessDenied("DescribeStacks"))
           \/ /\ refusal # NoError
              /\ calls' = [sent EXCEPT !.describe_rejection = refusal]
              /\ OuterHandler(refusal)
           \/ /\ refusal = NoError
              /\ calls' = sent
              /\ pc' = "update_stack"
              /\ UNCHANGED error
    /\ UNCHANGED <<contact, args, run, services, hosted_zone_id, acquirer,
                   acm_certificate_arn, outcome>>

\* deploy_stack, lines 59-64 and the handlers its rejection reaches.
UpdateStack ==
    /\ pc = "update_stack"
    /\ LET request == calls.deploy_stack[1]
           refusal == UpdateRejection(stack, request)
       IN  \/ /\ calls' = [calls EXCEPT !.update_stack = Append(@, request),
                                         !.update_rejection = AccessDenied("UpdateStack")]
              /\ InnerHandler(AccessDenied("UpdateStack"))
              /\ UNCHANGED stack
           \/ /\ refusal # NoError
              /\ calls' = [calls EXCEPT !.update_stack = Append(@, request),
                                         !.update_rejection = refusal]
              /\ InnerHandler(refusal)
              /\ UNCHANGED stack
           \/ /\ refusal = NoError
              /\ calls' = [calls EXCEPT !.update_stack = Append(@, request)]
              /\ stack' = [stack EXCEPT !.phase = "UPDATE_IN_PROGRESS",
                                        !.pending = ConfigOf(request)]
              /\ pc' = "wait_update"
              /\ UNCHANGED <<error, outcome>>
    /\ UNCHANGED <<contact, args, run, zones, certs, records, deleted, previous,
                   hosted_zone_id, acquirer, acm_certificate_arn>>

\* deploy_stack, lines 76-81, inside the outer handler: what create_stack
\* raises has no handler left.
CreateStack ==
    /\ pc = "create_stack"
    /\ LET request == calls.deploy_stack[1]
           refusal == CreateRejection(stack, request)
       IN  /\ calls' = [calls EXCEPT !.create_stack = Append(@, request)]
           /\ \/ /\ Raise(AccessDenied("CreateStack"))
                 /\ UNCHANGED stack
              \/ /\ refusal # NoError
                 /\ Raise(refusal)
                 /\ UNCHANGED stack
              \/ /\ refusal = NoError
                 /\ stack' = [stack EXCEPT !.phase = "CREATE_IN_PROGRESS",
                                           !.pending = ConfigOf(request)]
                 /\ pc' = "wait_create"
                 /\ UNCHANGED error
    /\ UNCHANGED <<contact, args, run, zones, certs, records, deleted, previous,
                   hosted_zone_id, acquirer, acm_certificate_arn, outcome>>

\* waiter.wait of lines 65-66 (stack_update_complete, "updated") and of
\* lines 82-83 (stack_create_complete, "created"): one poll.  A waiter raises
\* WaiterError, which is no ClientError: no handler catches it.
Wait(at, waiter, how) ==
    /\ pc = at
    /\ LET verdict == WaiterVerdict(waiter, stack.phase)
       IN  \/ /\ verdict = "success"
              /\ ReturnFromDeploy(how)
           \/ /\ verdict = "failure"
              /\ Raise(WaiterError(waiter, <<"terminal", "failure", "state">>))
              /\ UNCHANGED outcome
           \/ /\ verdict = "retry"
              /\ Raise(WaiterError(waiter, <<"Max", "attempts", "exceeded">>))
              /\ UNCHANGED outcome
    /\ UNCHANGED <<contact, args, run, services, hosted_zone_id, acquirer,
                   acm_certificate_arn, calls>>

\* Variant: deploy_stack returns without waiting for the update to finish.
WaitUpdate_Blind ==
    /\ pc = "wait_update"
    /\ ReturnFromDeploy("updated")
    /\ UNCHANGED <<contact, args, run, services, hosted_zone_id, acquirer,
                   acm_certificate_arn, calls>>

WaitUpdate == Wait("wait_update", "stack_update_complete", "updated")

WaitCreate == Wait("wait_create", "stack_create_complete", "created")

(***************************************************************************)
(* The deployment engine finishing an operation, and another operator      *)
(* deleting the deployment while deploy_stack is at work.                  *)
(***************************************************************************)
EngineCompletes ==
    /\ stack.phase \in {"CREATE_IN_PROGRESS", "UPDATE_IN_PROGRESS"}
    /\ stack' = [phase |-> IF stack.phase = "CREATE_IN_PROGRESS"
                           THEN "CREATE_COMPLETE" ELSE "UPDATE_COMPLETE",
                 live |-> stack.pending, pending |-> NoConfig]
    /\ UNCHANGED <<contact, args, run, pc, zones, certs, records, deleted,
                   previous, hosted_zone_id, acquirer, acm_certificate_arn, error,
                   outcome, calls>>

EngineRollsBack ==
    /\ stack.phase \in {"CREATE_IN_PROGRESS", "UPDATE_IN_PROGRESS"}
    /\ stack' = [phase |-> IF stack.phase = "CREATE_IN_PROGRESS"
                           THEN "ROLLBACK_COMPLETE" ELSE "UPDATE_ROLLBACK_COMPLETE",
                 live |-> stack.live, pending |-> NoConfig]
    /\ UNCHANGED <<contact, args, run, pc, zones, certs, records, deleted,
                   previous, hosted_zone_id, acquirer, acm_certificate_arn, error,
                   outcome, calls>>

ExternalDelete ==
    /\ pc \in {"update_stack", "wait_update", "create_stack", "wait_create"}
    /\ stack.phase # "ABSENT"
    /\ stack' = Absent
    /\ deleted' = TRUE
    /\ UNCHANGED <<contact, args, run, pc, zones, certs, records, previous,
                   hosted_zone_id, acquirer, acm_certificate_arn, error, outcome,
                   calls>>

(***************************************************************************)
(* Artifact Publisher: upload_index_html, lines 227-240, called twice by   *)
(* main, lines 345-346.                                                    *)
(***************************************************************************)
\* Variant: the object is stored under one fixed key.
UploadCall_FixedKey(bucket_name, file_path) ==
    [Filename |-> file_path, Bucket |-> bucket_name, Key |-> "index.html",
     ContentType |-> "text/html"]

\* The arguments of s3_client.upload_file.
UploadCall(bucket_name, file_path) ==
    [Filename |-> file_path, Bucket |-> bucket_name, Key |-> file_path,
     ContentType |-> "text/html"]

Upload(at, file_path, then) ==
    /\ pc = at
    /\ LET call == UploadCall(args.domain, file_path)
       IN  /\ calls' = [calls EXCEPT !.upload_file = Append(@, call),
                                     !.stages = IF at = "upload_index"
                                                THEN Append(@, "publish") ELSE @]
           /\ \/ Raise([kind |-> "S3UploadFailedError", msg |-> <<"Failed", "to", "upload">>])
              \/ /\ pc' = then
                 /\ UNCHANGED error
    /\ UNCHANGED <<contact, args, run, zones, certs, records, stack, deleted, previous,
                   hosted_zone_id, acquirer, acm_certificate_arn, outcome>>

UploadIndex == Upload("upload_index", "index.html", "upload_resume")

UploadResume == Upload("upload_resume", "resume.html", "done")

(***************************************************************************)
(* The operator runs the script again, against the same services: nothing  *)
(* of a run survives it but what the services hold.                        *)
(***************************************************************************)
Rerun ==
    /\ pc \in {"done", "failed"}
    /\ run < MaxRuns
    /\ run' = run + 1
    /\ previous' = [outcome |-> outcome, deploy_stack |-> calls.deploy_stack,
                    stack |-> stack, records |-> records]
    /\ deleted' = FALSE
    /\ pc' = "resolve_zone"
    /\ hosted_zone_id' = <<>>
    /\ response' = <<>>
    /\ ci' = 1
    /\ cert_arn' = None
    /\ options' = <<>>
    /\ oi' = 1
    /\ status' = ""
    /\ acm_certificate_arn' = None
    /\ error' = NoError
    /\ outcome' = "none"
    /\ calls' = NoCalls
    /\ UNCHANGED <<contact, args, zones, certs, records, stack>>

Next ==
    \/ ResolveZone
    \/ ListCertificates
    \/ SearchCertificates
    \/ ReuseCertificate
    \/ RequestCertificate
    \/ AwaitChallenges
    \/ PublishRecord
    \/ AwaitIssuance
    \/ Authority
    \/ ReadTemplate
    \/ ValidateTemplate
    \/ DescribeStacks
    \/ UpdateStack
    \/ WaitUpdate
    \/ CreateStack
    \/ WaitCreate
    \/ EngineCompletes
    \/ EngineRollsBack
    \/ ExternalDelete
    \/ UploadIndex
    \/ UploadResume
    \/ Rerun

Spec == Init /\ [][Next]_vars

\* The polling loops of lines 157-170 and 196-203 go on to their next round:
\* nothing but the sleep stands between two describe_certificate calls.
FairSpec == Spec /\ WF_vars(AwaitChallenges) /\ WF_vars(AwaitIssuance)


(***************************************************************************)
(* Contact-form handler: src/lambda/contact_form.py.  One invocation of    *)
(* `handler`, step by step; the mail service answers each send_email as it *)
(* pleases.                                                                *)
(***************************************************************************)
\* Strings are sequences of characters; these are the characters of the
\* inputs below, by the classes of EMAIL_REGEX (line 30).
Letter == {"a", "b", "c", "m"}
LocalChar == Letter \cup {"1", ".", "_", "%", "+", "-"}
DomainChar == Letter \cup {"1", ".", "-"}

\* `$` of EMAIL_REGEX: the end of the string, or the place before a newline
\* that ends it.
EndsOf(s) ==
    {Len(s)} \cup (IF s # <<>> /\ s[Len(s)] = "\n" THEN {Len(s) - 1} ELSE {})

\* EMAIL_REGEX.match(s): ^[local]+@[domain]+\.[letter]{2,}$
EmailRegexMatches(s) ==
    \E e \in EndsOf(s) : \E i \in 2..e : \E j \in (i + 2)..(e - 2) :
        /\ s[i] = "@"
        /\ s[j] = "."
        /\ \A k \in 1..(i - 1) : s[k] \in LocalChar
        /\ \A k \in (i + 1)..(j - 1) : s[k] \in DomainChar
        /\ \A k \in (j + 1)..e : s[k] \in Letter

\* validate_email, lines 33-35.
validate_email(email) == EmailRegexMatches(email)

\* re.sub(r"<[^>]*>", "", s): every "<" up to the next ">" is taken out; a
\* "<" that no ">" follows stays.
RECURSIVE StripTags(_)
StripTags(s) ==
    IF s = <<>> THEN <<>>
    ELSE IF s[1] = "<" /\ \E j \in 2..Len(s) : s[j] = ">"
    THEN LET close == CHOOSE j \in 2..Len(s) :
                         /\ s[j] = ">"
                         /\ \A k \in 2..(j - 1) : s[k] # ">"
         IN  StripTags(SubSeq(s, close + 1, Len(s)))
    ELSE <<s[1]>> \o StripTags(Tail(s))

\* sanitized[:5000]
MaxText == 5000
Truncate(s) == IF Len(s) <= MaxText THEN s ELSE SubSeq(s, 1, MaxText)

\* JSON values as json.loads gives them: a str, None, a list, a dict.
JString(chars) == [type |-> "str", chars |-> chars]
JNull == [type |-> "NoneType"]
JList == [type |-> "list"]
JDict(members) == [type |-> "dict", members |-> members]

\* `not text`, and str(text), for the values a field can have.
Falsy(text) == text = JNull \/ text = JString(<<>>)

\* sanitize_input, lines 38-44.
sanitize_input(text) ==
    IF Falsy(text) THEN <<>>
    ELSE Truncate(StripTags(text.chars))

\* What event["body"] can hold: nothing; a text, which is JSON or not; the
\* base64 form of bytes, which are the UTF-8 form of a text or not; or
\* characters base64.b64decode rejects (incorrect padding).
JsonText(value) == [json |-> TRUE, value |-> value]
NotJson == [json |-> FALSE]
EmptyBody == [kind |-> "empty"]
TextBody(text) == [kind |-> "text", text |-> text]
Base64Body(text) == [kind |-> "base64", utf8 |-> TRUE, text |-> text]
Base64OfOtherBytes == [kind |-> "base64", utf8 |-> FALSE]
BadBase64 == [kind |-> "bad_padding"]

Returned(value) == [raise |-> "none", value |-> value]
Raised(exception) == [raise |-> exception]

\* json.loads(raw_body)
json_loads(text) ==
    IF text.json THEN Returned(text.value) ELSE Raised("JSONDecodeError")

\* base64.b64decode(raw_body).decode("utf-8"), then json.loads.
DecodeAndLoad(raw_body) ==
    IF raw_body.kind = "bad_padding" THEN Raised("binascii.Error")
    ELSE IF ~raw_body.utf8 THEN Raised("UnicodeDecodeError")
    ELSE json_loads(raw_body.text)

\* parse_request_body, lines 106-115.  Without the isBase64Encoded flag a
\* base64 body is handed to json.loads as it is, and is no JSON.
parse_request_body(ev) ==
    IF ev.body.kind = "empty" THEN Returned(JDict(<<>>))
    ELSE IF ev.isBase64Encoded THEN DecodeAndLoad(ev.body)
    ELSE IF ev.body.kind = "text" THEN json_loads(ev.body.text)
    ELSE Raised("JSONDecodeError")

\* body.get(key, "")
Get(dict, key) ==
    IF key \in DOMAIN dict.members THEN dict.members[key] ELSE JString(<<>>)

MinName == 2
MinMessage == 10

\* validate_form_fields, lines 118-129.
validate_form_fields(name, email, message) ==
    (IF name = <<>> \/ Len(name) < MinName
     THEN <<"Name is required (minimum 2 characters)">> ELSE <<>>)
    \o (IF email = <<>> THEN <<"Email is required">>
        ELSE IF ~validate_email(email) THEN <<"Invalid email format">>
        ELSE <<>>)
    \o (IF message = <<>> \/ Len(message) < MinMessage
        THEN <<"Message is required (minimum 10 characters)">> ELSE <<>>)

\* ALLOWED_ORIGIN, line 24, left at its default.
ALLOWED_ORIGIN == "*"

\* build_response, lines 47-58, as handler calls it (no origin).
build_response(status_code, response_body) ==
    [statusCode |-> status_code,
     headers |-> [ContentType |-> "application/json",
                  AccessControlAllowOrigin |-> ALLOWED_ORIGIN,
                  AccessControlAllowHeaders |-> "Content-Type",
                  AccessControlAllowMethods |-> "POST, OPTIONS"],
     body |-> response_body]

\* message.replace(chr(10), '<br>'), line 81.
LineBreaks(message) ==
    [n \in 1..Len(message) |-> IF message[n] = "\n" THEN "<br>" ELSE message[n]]

\* The arguments of ses_client.send_email, lines 87-98.
SendEmailRequest(name, email, message) ==
    [Source |-> environ.SENDER_EMAIL,
     ToAddresses |-> <<environ.RECIPIENT_EMAIL>>,
     Subject |-> <<"Contact Form Submission from">> \o name,
     Text |-> [Name |-> name, Email |-> email, Message |-> message],
     Html |-> [Name |-> name, Email |-> email, Message |-> LineBreaks(message)],
     ReplyToAddresses |-> <<email>>]

\* The inputs of an invocation.
Names == {<<>>, <<"a">>, <<"a", "b">>, <<"<", "b", ">", "a">>}

GoodEmail == <<"a", "@", "b", ".", "c", "c">>
Emails ==
    {<<>>, GoodEmail, <<"a", "b">>, <<"a", "@", "b", ".", "c">>,
     GoodEmail \o <<"\n">>}

Repeat(c, n) == [k \in 1..n |-> c]
Messages ==
    {<<>>, Repeat("m", MinMessage - 1), Repeat("m", MinMessage),
     <<"<", "b", ">">> \o Repeat("m", MinMessage - 1),
     <<"a", "\n">> \o Repeat("m", MinMessage - 2)}

Forms ==
    {JDict([name |-> JString(n), email |-> JString(e), message |-> JString(m)]) :
        n \in Names, e \in Emails, m \in Messages}
    \cup {JDict([name |-> JString(<<"a", "b">>), email |-> JNull,
                 message |-> JString(Repeat("m", MinMessage))]),
          JDict([name |-> JString(<<"a", "b">>),
                 message |-> JString(Repeat("m", MinMessage))])}

GoodForm ==
    JDict([name |-> JString(<<"a", "b">>), email |-> JString(GoodEmail),
           message |-> JString(Repeat("m", MinMessage))])

Texts == {JsonText(v) : v \in Forms \cup {JList, JNull}} \cup {NotJson}

Events ==
    [method : {"OPTIONS", "POST"}, isBase64Encoded : {FALSE},
     body : {EmptyBody, BadBase64} \cup {TextBody(t) : t \in Texts}]
    \cup
    [method : {"OPTIONS", "POST"}, isBase64Encoded : {TRUE},
     body : {EmptyBody, BadBase64, Base64OfOtherBytes, Base64Body(NotJson),
             Base64Body(JsonText(GoodForm)), Base64Body(JsonText(JList))}]

Environs ==
    [RECIPIENT_EMAIL : {<<>>, <<"r", "@", "b", ".", "c", "c">>},
     SENDER_EMAIL : {<<>>, <<"s", "@", "b", ".", "c", "c">>}]

\* What ses_client.send_email does: it answers with a MessageId, raises a
\* ClientError, or raises an exception that is no ClientError.
SesAnswers == {"MessageId", "ClientError", "EndpointConnectionError"}

\* While the handler runs the deployment script does not, and is left alone.
deployment == <<args, run, pc, zones, certs, records, stack, deleted,
                hosted_zone_id, response, ci, cert_arn, options, oi, status,
                acm_certificate_arn, error, outcome, calls, previous>>

NothingDeployed ==
    /\ args = [domain |-> <<"c">>, prefix |-> <<"p">>, validate |-> FALSE]
    /\ run = 1
    /\ pc = "done"
    /\ zones = <<>>
    /\ certs = <<>>
    /\ records = {}
    /\ stack = Absent
    /\ deleted = FALSE
    /\ hosted_zone_id = <<>>
    /\ response = <<>>
    /\ ci = 1
    /\ cert_arn = None
    /\ options = <<>>
    /\ oi = 1
    /\ status = ""
    /\ acm_certificate_arn = None
    /\ error = NoError
    /\ outcome = "none"
    /\ calls = NoCalls
    /\ previous = [outcome |-> "none", deploy_stack |-> <<>>, stack |-> Absent,
                   records |-> {}]

\* The Lambda runtime invokes handler(event, _context).
HandlerInit ==
    /\ NothingDeployed
    /\ event \in Events
    /\ environ \in Environs
    /\ hpc = "preflight"
    /\ body = NoBody
    /\ form = NoForm
    /\ result = NoResponse
    /\ raised = NoError
    /\ ses_calls = <<>>

\* handler returns a response.
Return(status_code, response_body) ==
    /\ result' = build_response(status_code, response_body)
    /\ hpc' = "returned"
    /\ UNCHANGED raised

\* An exception nothing catches leaves handler.
Escape(exception) ==
    /\ raised' = [kind |-> exception, msg |-> <<>>]
    /\ hpc' = "raised"
    /\ UNCHANGED result

\* handler, lines 137-138.
Preflight ==
    /\ hpc = "preflight"
    /\ IF event.method = "OPTIONS"
       THEN Return(200, [message |-> "OK"])
       ELSE /\ hpc' = "parse"
            /\ UNCHANGED <<result, raised>>
    /\ UNCHANGED <<deployment, event, environ, body, form, ses_calls>>

\* handler, lines 141-145.
ParseBody ==
    /\ hpc = "parse"
    /\ LET parsed == parse_request_body(event)
       IN  IF parsed.raise = "none"
           THEN /\ body' = parsed.value
                /\ hpc' = "extract"
                /\ UNCHANGED <<result, raised>>
           ELSE IF parsed.raise = "JSONDecodeError"
           THEN /\ Return(400, [error |-> "Invalid JSON in request body"])
                /\ UNCHANGED body
           ELSE /\ Escape(parsed.raise)
                /\ UNCHANGED body
    /\ UNCHANGED <<deployment, event, environ, form, ses_calls>>

\* handler, lines 148-150: body.get exists for a dict only.
ExtractFields ==
    /\ hpc = "extract"
    /\ IF body.type # "dict"
       THEN /\ Escape("AttributeError")
            /\ UNCHANGED form
       ELSE /\ form' = [name |-> sanitize_input(Get(body, "name")),
                        email |-> sanitize_input(Get(body, "email")),
                        message |-> sanitize_input(Get(body, "message"))]
            /\ hpc' = "validate"
            /\ UNCHANGED <<result, raised>>
    /\ UNCHANGED <<deployment, event, environ, body, ses_calls>>

\* handler, lines 152-154.
ValidateFields ==
    /\ hpc = "validate"
    /\ LET errors == validate_form_fields(form.name, form.email, form.message)
       IN  IF errors # <<>>
           THEN Return(400, [error |-> "Validation failed", details |-> errors])
           ELSE /\ hpc' = "configuration"
                /\ UNCHANGED <<result, raised>>
    /\ UNCHANGED <<deployment, event, environ, body, form, ses_calls>>

\* handler, lines 157-161.
CheckConfiguration ==
    /\ hpc = "configuration"
    /\ IF environ.RECIPIENT_EMAIL = <<>> \/ environ.SENDER_EMAIL = <<>>
       THEN Return(500, [error |-> "Server configuration error"])
       ELSE /\ hpc' = "send"
            /\ UNCHANGED <<result, raised>>
    /\ UNCHANGED <<deployment, event, environ, body, form, ses_calls>>

\* handler, lines 164-171, with send_email, lines 61-103.
SendEmail ==
    /\ hpc = "send"
    /\ \E answer \in SesAnswers :
          /\ ses_calls' = Append(ses_calls,
                [request |-> SendEmailRequest(form.name, form.email, form.message),
                 answer |-> answer])
          /\ CASE answer = "MessageId" ->
                    Return(200, [message |->
                        "Thank you for your message. I will get back to you soon."])
               [] answer = "ClientError" ->
                    Return(500, [error |->
                        "Failed to send message. Please try again later."])
               [] OTHER -> Escape(answer)
    /\ UNCHANGED <<deployment, event, environ, body, form>>

HandlerNext ==
    \/ Preflight
    \/ ParseBody
    \/ ExtractFields
    \/ ValidateFields
    \/ CheckConfiguration
    \/ SendEmail

HandlerSpec == HandlerInit /\ [][HandlerNext]_vars

(***************************************************************************)
(* What the properties below speak of.                                     *)
(***************************************************************************)
\* needle occurs in hay as a contiguous run of elements.
Occurs(needle, hay) ==
    \E a \in 0..Len(hay) : \E b \in a..Len(hay) : SubSeq(hay, a + 1, b) = needle

\* The stages of a run, in the driver's order; validate replaces the last two.
DeployStages == <<"resolve_zone", "acquire", "read_template", "reconcile", "publish">>
ValidateStages == <<"resolve_zone", "acquire", "read_template", "validate">>

IsPrefix(s, t) == Len(s) <= Len(t) /\ SubSeq(t, 1, Len(s)) = s

LastStage == IF calls.stages = <<>> THEN "none" ELSE calls.stages[Len(calls.stages)]

\* request_acm_certificate has returned a handle to main in this run.
Acquired == acm_certificate_arn # None

\* deploy_stack has returned to main in this run.
Reconciled == outcome # "none"

\* The names the authority's certificate arn covers.
SANsOf(arn) == certs[CHOOSE n \in 1..Len(certs) : certs[n].arn = arn].SANs

\* A listed certificate for domain D with alternate name www.D, status ISSUED.
ListedIssued(summary) ==
    /\ summary.DomainName = args.domain
    /\ summary.Status = "ISSUED"
    /\ \E n \in 1..Len(SANsOf(summary.CertificateArn)) :
          SANsOf(summary.CertificateArn)[n] = <<"w", "w", "w", ".">> \o args.domain

(***************************************************************************)
(* C1.  If the certificate list contains a certificate with primary domain *)
(* D, alternate name "www."+D and status ISSUED, whatever else the list    *)
(* holds and in whatever order, the acquirer sends no request_certificate  *)
(* and no change_resource_record_sets, and the handle it returns is that   *)
(* of such a certificate.                                                  *)
(* Violated: get_existing_certificate returns the first certificate that   *)
(* matches domain and alternate name whatever its status, so a pending     *)
(* certificate listed before the issued one is carried into validation.    *)
(***************************************************************************)
C1_IssuedCertificateIsReused ==
    (\E n \in 1..Len(response) : ListedIssued(response[n])) =>
        /\ calls.request_certificate = <<>>
        /\ calls.change_resource_record_sets = <<>>
        /\ Acquired =>
              \E n \in 1..Len(response) :
                  /\ ListedIssued(response[n])
                  /\ acm_certificate_arn = response[n].CertificateArn

(***************************************************************************)
(* C2.  Whenever update_stack is rejected with "No updates are to be       *)
(* performed", deploy_stack returns normally and sends no create request.  *)
(* When deploy_stack is invoked with the request the previous run's        *)
(* successful deploy_stack was invoked with, and nobody else touched the   *)
(* deployment, that is the engine's only refusal: no update is accepted,   *)
(* no create request is sent and the deployment stays as it was; the       *)
(* invocation fails only if the engine denies the describe or update call. *)
(***************************************************************************)
NoDriftRejected ==
    Occurs(<<"No", "updates", "are", "to", "be", "performed">>,
           calls.update_rejection.msg)

SameAsPrevious ==
    /\ previous.outcome \in {"created", "updated", "no_updates"}
    /\ calls.deploy_stack = previous.deploy_stack
    /\ ~deleted

C2_SecondReconcileIsNoOp ==
    /\ NoDriftRejected =>
          /\ outcome = "no_updates"
          /\ calls.create_stack = <<>>
          /\ Len(calls.update_stack) = 1
          /\ pc \in {"upload_index", "upload_resume", "done", "failed"}
          /\ pc = "failed" => (LastStage = "publish" /\ error.kind = "S3UploadFailedError")
    /\ SameAsPrevious =>
          /\ stack = previous.stack
          /\ pc \notin {"create_stack", "wait_update", "wait_create"}
          /\ calls.create_stack = <<>>
          /\ Len(calls.update_stack) <= 1
          /\ calls.update_rejection.kind # "none" =>
                (calls.update_rejection = AccessDenied("UpdateStack") \/ NoDriftRejected)
          /\ (pc = "failed" /\ LastStage = "reconcile") =>
                error \in {AccessDenied("DescribeStacks"), AccessDenied("UpdateStack")}
          /\ Reconciled => outcome = "no_updates"

C2_Witness ==
    /\ SameAsPrevious
    /\ run = 2
    /\ pc = "done"
    /\ outcome = "no_updates"
    /\ NoDriftRejected

(***************************************************************************)
(* C3.  When describe_stacks fails with the "does not exist" signal, the   *)
(* deploy_stack invocation sends exactly one create_stack request (it is   *)
(* sent by the step after the describe) and no update_stack request.       *)
(***************************************************************************)
DescribedAbsent ==
    Occurs(<<"does", "not", "exist">>, calls.describe_rejection.msg)

C3_AbsentIsCreatedOnce ==
    DescribedAbsent =>
        /\ calls.update_stack = <<>>
        /\ Len(calls.create_stack) = IF pc = "create_stack" THEN 0 ELSE 1
        /\ Len(calls.create_stack) = 1 =>
              calls.create_stack[1] = calls.deploy_stack[1]

C3_Witness ==
    /\ DescribedAbsent
    /\ pc = "done"
    /\ outcome = "created"
    /\ Len(calls.create_stack) = 1

(***************************************************************************)
(* C4.  Once the zone lookup has answered, the run has failed with         *)
(* ValueError (ZoneNotFound) if and only if the answer is empty or its     *)
(* first zone's name does not contain the domain; otherwise hosted_zone_id *)
(* is the zone's Id after its last "/" (the whole Id when it has none).    *)
(***************************************************************************)
LookupAnswered ==
    /\ calls.stages # <<>>
    /\ ~(calls.stages = <<"resolve_zone">> /\ error = AccessDenied("ListHostedZonesByName"))

\* id is what follows the last "/" of full.
BareIdOf(id, full) ==
    /\ \A n \in 1..Len(id) : id[n] # "/"
    /\ \/ id = full
       \/ /\ Len(id) < Len(full)
          /\ full[Len(full) - Len(id)] = "/"
          /\ SubSeq(full, Len(full) - Len(id) + 1, Len(full)) = id

C4_ZoneNotFoundExactly ==
    LookupAnswered =>
        /\ (error.kind = "ValueError") <=>
              (zones = <<>> \/ ~Occurs(args.domain, zones[1].Name))
        /\ error.kind = "ValueError" => (pc = "failed" /\ calls.stages = <<"resolve_zone">>)
        /\ error.kind # "ValueError" => BareIdOf(hosted_zone_id, zones[1].Id)

\* Both the zone that merely contains the domain and the zone with a path id resolve.
C4_Witness ==
    /\ LookupAnswered
    /\ pc = "list_certificates"
    /\ zones # <<>>
    /\ zones[1].Name # args.domain \o <<".">>
    /\ hosted_zone_id = <<"Z", "2">>


(***************************************************************************)
(* C5.  A run with --validate sends no describe_stacks, create_stack or    *)
(* update_stack request, whether or not the deployment exists, and no run  *)
(* both validates the template and reconciles the deployment.              *)
(***************************************************************************)
C5_ValidateOnlyNeverDeploys ==
    /\ args.validate =>
          /\ calls.create_stack = <<>>
          /\ calls.update_stack = <<>>
          /\ calls.deploy_stack = <<>>
          /\ calls.describe_stacks = 0
          /\ pc \notin {"describe_stacks", "update_stack", "wait_update",
                        "create_stack", "wait_create", "upload_index", "upload_resume"}
    /\ ~(calls.validate_template > 0 /\ calls.describe_stacks > 0)
    /\ calls.validate_template > 0 => args.validate

C5_Witness ==
    /\ args.validate
    /\ pc = "done"
    /\ calls.validate_template = 1
    /\ stack.phase = "CREATE_COMPLETE"

(***************************************************************************)
(* C6.  A run with --validate creates or changes nothing in any service:   *)
(* no request_certificate, no change_resource_record_sets, no create_stack *)
(* or update_stack and no upload_file.                                     *)
(* Violated: main acquires the certificate before it looks at --validate.  *)
(***************************************************************************)
C6_ValidateOnlyMutatesNothing ==
    args.validate =>
        /\ calls.request_certificate = <<>>
        /\ calls.change_resource_record_sets = <<>>
        /\ calls.create_stack = <<>>
        /\ calls.update_stack = <<>>
        /\ calls.upload_file = <<>>

(***************************************************************************)
(* C7.  The stages of a run are entered in the driver's order, each at     *)
(* most once, and an error ends the run in the stage that raised it: after *)
(* a failed zone resolution no certificate-authority or deployment-engine  *)
(* call is made, after a failed acquisition no deployment-engine call, and *)
(* after a failed reconciliation no upload.                                *)
(***************************************************************************)
NoAuthorityCalls ==
    /\ calls.list_certificates = 0
    /\ calls.request_certificate = <<>>
    /\ calls.change_resource_record_sets = <<>>

NoEngineCalls ==
    /\ calls.validate_template = 0
    /\ calls.describe_stacks = 0
    /\ calls.update_stack = <<>>
    /\ calls.create_stack = <<>>

C7_FailureStopsLaterStages ==
    /\ IsPrefix(calls.stages, IF args.validate THEN ValidateStages ELSE DeployStages)
    /\ error # NoError => pc = "failed"
    /\ LastStage \in {"none", "resolve_zone"} =>
          (NoAuthorityCalls /\ NoEngineCalls /\ calls.upload_file = <<>>)
    /\ LastStage \in {"acquire", "read_template"} =>
          (NoEngineCalls /\ calls.upload_file = <<>>)
    /\ LastStage \in {"reconcile", "validate"} => calls.upload_file = <<>>
    /\ (pc = "failed" /\ LastStage = "resolve_zone") => ~Acquired
    /\ calls.upload_file # <<>> => (Acquired /\ Reconciled)
    /\ calls.describe_stacks > 0 => (Acquired /\ hosted_zone_id # <<>>)

\* A reconciliation that failed on a deployment that exists.
C7_Witness ==
    /\ pc = "failed"
    /\ LastStage = "reconcile"
    /\ error.kind = "ClientError"
    /\ calls.update_stack # <<>>
    /\ Acquired

(***************************************************************************)
(* C8.  The upserts of a run are, in order, one per option of the          *)
(* certificate's validation options: action UPSERT, the option's record    *)
(* name, type and value, TTL 300, in the resolved zone.  While publishing, *)
(* one call has been made per option passed; once publication is done, for *)
(* a certificate with n challenges exactly n calls were made.              *)
(***************************************************************************)
UpsertFor(option) ==
    [HostedZoneId |-> hosted_zone_id,
     Change |->
        [Action |-> "UPSERT",
         ResourceRecordSet |->
            [Name |-> option.ResourceRecord.Name,
             Type |-> option.ResourceRecord.Type,
             TTL |-> 300,
             ResourceRecords |-> << [Value |-> option.ResourceRecord.Value] >>]]]

\* The loop over the options has run to its end.
Published == options # <<>> /\ oi = Len(options) + 1

C8_OneUpsertPerChallenge ==
    LET upserts == calls.change_resource_record_sets
    IN  /\ Len(upserts) <= Len(options)
        /\ \A n \in 1..Len(upserts) : upserts[n] = UpsertFor(options[n])
        /\ pc = "publish" => Len(upserts) = oi - 1
        /\ Published => Len(upserts) = Len(options)
        /\ pc = "await_issuance" => Published
        /\ upserts # <<>> => hosted_zone_id = SplitLast(zones[1].Id)

C8_Witness ==
    /\ pc = "await_issuance"
    /\ Published
    /\ Len(options) = 3
    /\ Len(calls.change_resource_record_sets) = 3

(***************************************************************************)
(* C9.  In the issuance loop, a describe that reports a terminal status    *)
(* other than ISSUED makes the acquirer stop polling and fail with         *)
(* CertificateValidationFailed, returning no handle.                       *)
(* Violated: the loop of lines 196-203 leaves only on ISSUED, so on FAILED *)
(* it sleeps and polls again, for ever.                                    *)
(***************************************************************************)
C9_TerminalFailureStopsPolling ==
    [][(pc = "await_issuance" /\ AwaitIssuance /\ status' = "FAILED"
            /\ error' # AccessDenied("DescribeCertificate"))
        => (/\ pc' = "failed"
            /\ error'.kind = "CertificateValidationFailed"
            /\ acm_certificate_arn' = None)]_vars

(***************************************************************************)
(* C10.  When update_stack is rejected with a message that does not        *)
(* contain "No updates are to be performed", deploy_stack has failed, the  *)
(* error that reached main is that rejection, and no create_stack request  *)
(* was sent.                                                               *)
(* Violated: what the inner handler raises again is caught by the outer    *)
(* handler, which answers a rejection containing "does not exist" (the     *)
(* deployment was deleted after the describe) by creating the deployment.  *)
(***************************************************************************)
UpdateRejectedForDrift ==
    /\ calls.update_rejection # NoError
    /\ ~Occurs(<<"No", "updates", "are", "to", "be", "performed">>,
               calls.update_rejection.msg)

C10_UpdateRejectionPropagates ==
    UpdateRejectedForDrift =>
        /\ pc = "failed"
        /\ error = calls.update_rejection
        /\ ~Reconciled
        /\ calls.create_stack = <<>>


(***************************************************************************)
(* C11.  When describe_stacks fails for a reason other than the deployment *)
(* not existing, deploy_stack fails with that error and sends neither a    *)
(* create_stack nor an update_stack request; a create_stack request is     *)
(* sent only after describe_stacks failed with "does not exist".           *)
(* Violated in its last part: the outer handler also receives what the     *)
(* inner handler raises again, and sends create_stack when an update_stack *)
(* rejection contains "does not exist" (see C10).                          *)
(***************************************************************************)
DescribeFailedOtherwise ==
    /\ calls.describe_rejection # NoError
    /\ ~DescribedAbsent

\* The first part alone.
C11_OtherDescribeFailurePropagates ==
    DescribeFailedOtherwise =>
        /\ pc = "failed"
        /\ error = calls.describe_rejection
        /\ calls.create_stack = <<>>
        /\ calls.update_stack = <<>>

C11_CreateOnlyWhenDescribedAbsent ==
    /\ C11_OtherDescribeFailurePropagates
    /\ (pc = "create_stack" \/ calls.create_stack # <<>>) => DescribedAbsent

(***************************************************************************)
(* C12.  When the list holds a certificate (ISSUED or PENDING_VALIDATION)  *)
(* with primary domain D and alternate name "www."+D, one acquire calls    *)
(* list_certificates exactly once and request_certificate never; the       *)
(* handle it carries through the challenge wait, the publication and the   *)
(* issuance wait, and the handle it returns, is that of the first such     *)
(* certificate of the list.                                                *)
(***************************************************************************)
ListedMatch(summary) ==
    /\ summary.DomainName = args.domain
    /\ summary.Status \in {"ISSUED", "PENDING_VALIDATION"}
    /\ \E n \in 1..Len(SANsOf(summary.CertificateArn)) :
          SANsOf(summary.CertificateArn)[n] = <<"w", "w", "w", ".">> \o args.domain

MatchListed == \E n \in 1..Len(response) : ListedMatch(response[n])

FirstMatch ==
    response[CHOOSE n \in 1..Len(response) :
                /\ ListedMatch(response[n])
                /\ \A m \in 1..(n - 1) : ~ListedMatch(response[m])]

DeployReturned ==
    \/ Reconciled
    \/ pc \in {"upload_index", "upload_resume"}
    \/ pc = "done" /\ ~args.validate

RequestAccepted ==
    \/ calls.update_stack # <<>> /\ calls.update_rejection = NoError
    \/ pc = "wait_create"

C13_SuccessOnlyAfterComplete ==
    /\ DeployReturned =>
          \/ /\ outcome = "created"
             /\ Len(calls.create_stack) = 1
             /\ stack.phase = "CREATE_COMPLETE"
             /\ stack.live = ConfigOf(calls.create_stack[1])
          \/ /\ outcome = "updated"
             /\ Len(calls.update_stack) = 1
             /\ calls.update_rejection = NoError
             /\ calls.create_stack = <<>>
             /\ stack.phase = "UPDATE_COMPLETE"
             /\ stack.live = ConfigOf(calls.update_stack[1])
          \/ /\ outcome = "no_updates"
             /\ NoDriftRejected
             /\ calls.create_stack = <<>>
    /\ (RequestAccepted
          /\ stack.phase \in {"ROLLBACK_COMPLETE", "UPDATE_ROLLBACK_COMPLETE"})
          => ~DeployReturned

\* Each of the two waits has ended in success, and each in a reported failure.
C13_Witness ==
    /\ outcome = "updated"
    /\ stack.phase = "UPDATE_COMPLETE"
    /\ stack.live = ConfigOf(calls.update_stack[1])

C13_WitnessRolledBack ==
    /\ pc = "failed"
    /\ error = WaiterError("stack_update_complete", <<"terminal", "failure", "state">>)
    /\ stack.phase = "UPDATE_ROLLBACK_COMPLETE"

(***************************************************************************)
(* C14.  upload_file is called only after deploy_stack has returned in the *)
(* same run.  The calls of a run are, in order, index.html and then        *)
(* resume.html, each into the bucket named after the domain, under the     *)
(* file's own path as key, with content type text/html; a run that ends    *)
(* in success without --validate has made exactly these two calls, and a   *)
(* run whose first upload failed has made no second one.                   *)
(***************************************************************************)
Artifact(file_path) ==
    [Filename |-> file_path, Bucket |-> args.domain, Key |-> file_path,
     ContentType |-> "text/html"]

Artifacts == <<Artifact("index.html"), Artifact("resume.html")>>

C14_UploadsFollowDeployInOrder ==
    /\ calls.upload_file # <<>> => Reconciled /\ LastStage = "publish"
    /\ IsPrefix(calls.upload_file, Artifacts)
    /\ pc = "upload_index" => calls.upload_file = <<>>
    /\ pc = "upload_resume" => calls.upload_file = <<Artifacts[1]>> /\ error = NoError
    /\ (pc = "done" /\ ~args.validate) => calls.upload_file = Artifacts
    /\ (pc = "done" /\ args.validate) => calls.upload_file = <<>>
    /\ Len(calls.upload_file) = 1 =>
          \/ pc = "upload_resume"
          \/ pc = "failed" /\ error.kind = "S3UploadFailedError"
    /\ Len(calls.upload_file) = 2 => pc \in {"done", "failed"}

\* A run has uploaded both artifacts.
C14_Witness ==
    /\ pc = "done"
    /\ Reconciled
    /\ calls.upload_file = Artifacts

\* A run has stopped at the failure of the first upload.
C14_WitnessFirstFails ==
    /\ pc = "failed"
    /\ calls.upload_file = <<Artifacts[1]>>

(***************************************************************************)
(* C15.  The acquirer goes from the challenge wait to the publication only *)
(* when every validation option carries a resource record, so that the     *)
(* publication never meets an option without one.                          *)
(* Violated: line 167 looks at options[0] only, and line 174 then reads    *)
(* option["ResourceRecord"] of an option that has none.                    *)
(***************************************************************************)
C15_PublishOnlyWhenAllReady ==
    /\ pc = "publish" =>
          \A n \in 1..Len(options) : "ResourceRecord" \in DOMAIN options[n]
    /\ error.kind # "KeyError"

(***************************************************************************)
(* C16.  When a describe_certificate of the challenge wait reports ISSUED, *)
(* the acquirer returns the carried handle at once: it has sent no         *)
(* change_resource_record_sets in this invocation and sends none, even if  *)
(* the answer carries validation options with resource records.            *)
(* (In the challenge wait `status` is never ISSUED before the poll: the    *)
(* wait is entered and repeated only on another status.)                   *)
(***************************************************************************)
C16_IssuedInChallengeWaitReturns ==
    [][(pc = "await_challenges" /\ status' = "ISSUED") =>
          /\ pc' = "read_template"
          /\ acm_certificate_arn' = cert_arn
          /\ error' = NoError
          /\ calls.change_resource_record_sets = <<>>
          /\ calls' = calls
          /\ records' = records]_vars

\* The challenge wait is entered and repeated only with a status other than ISSUED.
C16_NotIssuedBeforePoll == pc = "await_challenges" => status # "ISSUED"

\* A requested certificate was issued, its records attached, before the
\* acquirer's first poll: the handle is returned without any upsert.
C16_Witness ==
    /\ Acquired
    /\ calls.request_certificate # <<>>
    /\ calls.change_resource_record_sets = <<>>
    /\ status = "ISSUED"
    /\ ChallengesAvailable(
          DescribeCertificate(certs, acm_certificate_arn).DomainValidationOptions)

(***************************************************************************)
(* C17.  When list_certificates has answered and no listed certificate has *)
(* primary domain D and alternate name "www."+D, the acquirer sends        *)
(* request_certificate exactly once, for D with the one alternate name     *)
(* "www."+D and validation method DNS; the handle it carries and returns   *)
(* is the one that call answered with.  A listed certificate for D that    *)
(* lacks "www."+D is never carried or returned.                            *)
(***************************************************************************)
Listed ==
    /\ calls.list_certificates = 1
    /\ pc # "list_certificates"
    /\ error # AccessDenied("ListCertificates")

ListedArns == {response[n].CertificateArn : n \in 1..Len(response)}

C17_NoMatchRequestsOnce ==
    /\ (Listed /\ ~MatchListed) =>
          /\ cert_arn \in {None, calls.requested_arn}
          /\ cert_arn \notin ListedArns
          /\ acm_certificate_arn \notin ListedArns
          /\ pc \in {"search", "request_certificate"} => calls.request_certificate = <<>>
          /\ calls.request_certificate \in
                {<<>>, << [DomainName |-> args.domain,
                           SubjectAlternativeNames |->
                               << <<"w", "w", "w", ".">> \o args.domain >>,
                           ValidationMethod |-> "DNS"] >>}
          /\ (pc \in {"await_challenges", "publish", "await_issuance"} \/ Acquired) =>
                /\ Len(calls.request_certificate) = 1
                /\ calls.requested_arn # None
                /\ cert_arn = calls.requested_arn
          /\ Acquired => acm_certificate_arn = calls.requested_arn
    /\ \A arn \in {cert_arn, acm_certificate_arn} \ {None} :
          \E n \in 1..Len(SANsOf(arn)) :
             SANsOf(arn)[n] = <<"w", "w", "w", ".">> \o args.domain

\* A certificate for the domain without "www." was listed, none that
\* matches: the requested certificate was validated and returned.
C17_Witness ==
    /\ Listed
    /\ ~MatchListed
    /\ \E n \in 1..Len(response) : response[n].DomainName = args.domain
    /\ Published
    /\ acm_certificate_arn = calls.requested_arn

(***************************************************************************)
(* C18.  Publishing the challenges is idempotent: a run whose publication  *)
(* upserts only record sets the zone already held when the run began       *)
(* leaves the zone's record sets exactly as they were; and whatever runs   *)
(* have published, the zone holds at most one record set per name and type.*)
(***************************************************************************)
UpsertedSets ==
    {calls.change_resource_record_sets[n].Change.ResourceRecordSet :
        n \in 1..Len(calls.change_resource_record_sets)}

\* This run published, and every record set it upserted was in the zone before.
Republished ==
    /\ Published
    /\ UpsertedSets \subseteq previous.records

C18_PublishingIsIdempotent ==
    /\ Republished => records = previous.records
    /\ \A r1 \in records : \A r2 \in records :
          (r1.Name = r2.Name /\ r1.Type = r2.Type) => r1 = r2
    /\ Published => UpsertedSets \subseteq records

\* A second run has published the same challenges as the run before it.
C18_Witness ==
    /\ run = 2
    /\ Republished
    /\ Cardinality(records) >= 2

(***************************************************************************)
(* C19.  With the polling rounds scheduled fairly: once the authority      *)
(* reports the carried certificate ISSUED (and goes on doing so), the      *)
(* acquirer eventually returns its handle, unless a describe_certificate   *)
(* fails; the acquirer ends only by returning a handle or with the error   *)
(* of a collaborator's call; and a round of the issuance wait that does    *)
(* not read ISSUED is followed by another round, without any limit.        *)
(* Violated in its second part: the acquirer also ends with the KeyError   *)
(* of line 174, which is raised by its own code (see C15).                 *)
(***************************************************************************)
Polling == pc \in {"await_challenges", "await_issuance"}

CarriedIsIssued ==
    /\ cert_arn # None
    /\ DescribeCertificate(certs, cert_arn).Status = "ISSUED"

\* First part: the liveness of the two loops.
C19_IssuedEventuallyReturns ==
    (Polling /\ CarriedIsIssued) ~>
        \/ acm_certificate_arn # None
        \/ pc = "failed" /\ error = AccessDenied("DescribeCertificate")

\* Third part: the issuance wait has no exit but ISSUED and a failed call.
C19_PollsWithoutBound ==
    [][(pc = "await_issuance" /\ pc' # "await_issuance") =>
          \/ status' = "ISSUED" /\ acm_certificate_arn' = cert_arn
          \/ pc' = "failed" /\ error' = AccessDenied("DescribeCertificate")]_vars

EndsOnlyByCollaborator ==
    (pc = "failed" /\ LastStage = "acquire") => error.kind = "ClientError"

C19_AcquireEndsOnlyOnIssuedOrCollaboratorError ==
    /\ C19_IssuedEventuallyReturns
    /\ C19_PollsWithoutBound
    /\ []EndsOnlyByCollaborator

(***************************************************************************)
(* C20.  Whenever the acquirer has returned a handle, its latest           *)
(* describe_certificate was of the certificate of that handle and          *)
(* reported ISSUED.                                                        *)
(***************************************************************************)
C20_ReturnedHandleWasReportedIssued ==
    Acquired =>
        /\ status = "ISSUED"
        /\ acm_certificate_arn = cert_arn
        /\ DescribeCertificate(certs, acm_certificate_arn).Status = "ISSUED"

\* Each of the three returns has been taken: for a listed issued certificate,
\* from the challenge wait, and from the issuance wait.
C20_Witness ==
    /\ Acquired
    /\ Published
    /\ status = "ISSUED"

C20_WitnessReused ==
    /\ Acquired
    /\ options = <<>>
    /\ calls.request_certificate = <<>>

(***************************************************************************)
(* C21.  One deploy_stack invocation sends at most one mutating request:   *)
(* never both update_stack and create_stack, and never create_stack for a  *)
(* deployment that describe_stacks reported as existing.                   *)
(* Violated: an update_stack rejected with "does not exist" is followed by *)
(* create_stack in the same invocation (see C10).                          *)
(***************************************************************************)
DescribedExisting ==
    /\ calls.describe_stacks > 0
    /\ calls.describe_rejection = NoError
    /\ pc # "describe_stacks"

C21_AtMostOneMutatingRequest ==
    /\ Len(calls.update_stack) + Len(calls.create_stack) <= 1
    /\ DescribedExisting => (calls.create_stack = <<>> /\ pc # "create_stack")

(***************************************************************************)
(* C22.  An invocation of the contact-form handler calls the mail service  *)
(* at most once and only when every check has passed, and it always        *)
(* returns a response: 200 for an OPTIONS preflight, 400 for a body that   *)
(* cannot be parsed, 400 for a field error (name under 2 characters, email *)
(* missing or malformed, message under 10 characters), 500 when sender or  *)
(* recipient is not configured, all four without a call of the mail        *)
(* service; for any other request one call, and 200 exactly when the send  *)
(* succeeded, 500 when it failed.  Lengths are those of the fields with    *)
(* their tags removed.                                                     *)
(* Violated: the handler lets exceptions pass that it does not catch       *)
(* (base64 and UTF-8 decoding errors of the body, a JSON body that is no   *)
(* object, a send failure that is no ClientError) and then returns no      *)
(* response; and `$` of EMAIL_REGEX accepts an address ending in a newline.*)
(***************************************************************************)
IsOptions == event.method = "OPTIONS"

\* The text the body stands for, if it stands for one.
BodyText ==
    IF event.isBase64Encoded /\ event.body.kind = "base64" /\ event.body.utf8
    THEN event.body.text
    ELSE IF ~event.isBase64Encoded /\ event.body.kind = "text"
    THEN event.body.text
    ELSE NotJson

Unparsable == event.body.kind # "empty" /\ ~BodyText.json

\* The submitted value of a field, tags removed; nothing when the body is
\* empty or no JSON object.
Submitted(key) ==
    IF event.body.kind = "empty" \/ ~BodyText.json THEN <<>>
    ELSE IF BodyText.value.type # "dict" THEN <<>>
    ELSE sanitize_input(Get(BodyText.value, key))

\* local@domain.tld, nothing before and nothing after.
WellFormedAddress(s) ==
    \E i \in 2..Len(s) : \E j \in (i + 2)..(Len(s) - 2) :
        /\ s[i] = "@"
        /\ s[j] = "."
        /\ \A k \in 1..(i - 1) : s[k] \in LocalChar
        /\ \A k \in (i + 1)..(j - 1) : s[k] \in DomainChar
        /\ \A k \in (j + 1)..Len(s) : s[k] \in Letter

FieldError ==
    \/ Len(Submitted("name")) < 2
    \/ ~WellFormedAddress(Submitted("email"))
    \/ Len(Submitted("message")) < 10

NotConfigured == environ.RECIPIENT_EMAIL = <<>> \/ environ.SENDER_EMAIL = <<>>

EveryCheckPassed == ~IsOptions /\ ~Unparsable /\ ~FieldError /\ ~NotConfigured

\* The status the claim gives the request, the mail service having answered
\* `answers` (at most one answer).
StatusDue(answers) ==
    IF IsOptions THEN 200
    ELSE IF Unparsable THEN 400
    ELSE IF FieldError THEN 400
    ELSE IF NotConfigured THEN 500
    ELSE IF answers = <<"MessageId">> THEN 200
    ELSE 500

SesAnswered == [n \in 1..Len(ses_calls) |-> ses_calls[n].answer]

C22_HandlerAnswersEveryRequest ==
    /\ Len(ses_calls) <= 1
    /\ ses_calls # <<>> => EveryCheckPassed
    /\ hpc # "raised"
    /\ hpc = "returned" =>
          /\ result.statusCode = StatusDue(SesAnswered)
          /\ Len(ses_calls) = IF EveryCheckPassed THEN 1 ELSE 0

\* What does hold: the same, for the invocations that end in a response and
\* whose address has no newline at its end.
EndsInNewline(s) == s # <<>> /\ s[Len(s)] = "\n"

C22_ResponsesWhenReturned ==
    /\ Len(ses_calls) <= 1
    /\ (ses_calls # <<>> /\ ~EndsInNewline(Submitted("email"))) => EveryCheckPassed
    /\ (hpc = "returned" /\ ~EndsInNewline(Submitted("email"))) =>
          /\ result.statusCode = StatusDue(SesAnswered)
          /\ Len(ses_calls) = IF EveryCheckPassed THEN 1 ELSE 0
    /\ hpc = "raised" =>
          \/ raised.kind \in {"binascii.Error", "UnicodeDecodeError"} /\ Unparsable
          \/ raised.kind = "AttributeError" /\ BodyText.value.type # "dict"
          \/ raised.kind = "EndpointConnectionError" /\ Len(ses_calls) = 1

=============================================================================
